---- MODULE Spec2Model ----
(***************************************************************************)
(* A model of the gridstore crate: the Grid (src/src/lib.rs), its          *)
(* rectangle iterators IterGridRect (src/src/iter.rs) and IterCoords       *)
(* (src/src/iter_coords.rs) and the wrapper IterWithCoords                 *)
(* (src/src/iter_with_coords.rs).                                          *)
(*                                                                         *)
(* f32 values are modelled as extended rationals: a finite value is an     *)
(* exact fraction n/d in lowest terms, and NaN, +inf and -inf are kept as  *)
(* the IEEE operations produce them (x/0, 0/0, inf*0, ...). Rounding and   *)
(* the sign of zero are not modelled. usize values are naturals up to      *)
(* UsizeMax.                                                               *)
(***************************************************************************)
EXTENDS Integers, Sequences, FiniteSets, TLC

\* ------------------------------------------------------------------ bounds
\* columns of a grid range over 1..MaxColumns
MaxColumns == 2
\* rows of a grid range over 1..MaxRows
MaxRows == 3
\* layers of a grid range over 1..MaxLayers
MaxLayers == 2
\* physical widths and heights are 0 or MaxSize; query coordinates range
\* over -1 .. MaxSize
MaxSize == 2

\* usize::MAX (the width of a 16-bit target, so that it stays a TLC integer)
UsizeMax == 65535

\* ------------------------------------------------------------------ f32
RECURSIVE Gcd(_, _)
Gcd(a, b) == IF b = 0 THEN a ELSE Gcd(b, a % b)

Abs(a) == IF a < 0 THEN -a ELSE a

\* the finite value n/d (d # 0), in lowest terms with a positive denominator
Frac(n, d) ==
    LET g == Gcd(Abs(n), Abs(d))
        s == IF d < 0 THEN -1 ELSE 1
    IN [k |-> "num", n |-> (s * n) \div g, d |-> (s * d) \div g]

F(i) == [k |-> "num", n |-> i, d |-> 1]
NaN == [k |-> "nan", n |-> 0, d |-> 1]
PInf == [k |-> "inf", n |-> 1, d |-> 1]
NInf == [k |-> "inf", n |-> -1, d |-> 1]

IsNum(a) == a.k = "num"
IsNaN(a) == a.k = "nan"
\* -1, 0 or 1; of a value that is not NaN
Sign(a) == IF a.n > 0 THEN 1 ELSE IF a.n < 0 THEN -1 ELSE 0
Inf(s) == IF s > 0 THEN PInf ELSE NInf

\* a + b
FAdd(a, b) ==
    IF IsNaN(a) \/ IsNaN(b) THEN NaN
    ELSE IF IsNum(a) /\ IsNum(b) THEN Frac(a.n * b.d + b.n * a.d, a.d * b.d)
    ELSE IF IsNum(a) THEN b
    ELSE IF IsNum(b) THEN a
    ELSE IF a.n = b.n THEN a ELSE NaN

FNeg(a) == IF IsNaN(a) THEN NaN ELSE [a EXCEPT !.n = -a.n]

\* a - b
FSub(a, b) == FAdd(a, FNeg(b))

\* a * b
FMul(a, b) ==
    IF IsNaN(a) \/ IsNaN(b) THEN NaN
    ELSE IF IsNum(a) /\ IsNum(b) THEN Frac(a.n * b.n, a.d * b.d)
    ELSE IF Sign(a) * Sign(b) = 0 THEN NaN
    ELSE Inf(Sign(a) * Sign(b))

\* a / b
FDiv(a, b) ==
    IF IsNaN(a) \/ IsNaN(b) THEN NaN
    ELSE IF IsNum(a) /\ IsNum(b) THEN
        IF b.n # 0 THEN Frac(a.n * b.d, a.d * b.n)
        ELSE IF a.n = 0 THEN NaN ELSE Inf(Sign(a))
    ELSE IF IsNum(a) THEN F(0)
    ELSE IF IsNum(b) THEN Inf(IF Sign(b) < 0 THEN -Sign(a) ELSE Sign(a))
    ELSE NaN

\* a < b (false when either is NaN)
FLt(a, b) ==
    IF IsNaN(a) \/ IsNaN(b) THEN FALSE
    ELSE IF IsNum(a) /\ IsNum(b) THEN a.n * b.d < b.n * a.d
    ELSE IF IsNum(a) THEN Sign(b) > 0
    ELSE IF IsNum(b) THEN Sign(a) < 0
    ELSE Sign(a) < Sign(b)

\* a >= b (false when either is NaN)
FGe(a, b) == ~IsNaN(a) /\ ~IsNaN(b) /\ ~FLt(a, b)

\* a <= b (false when either is NaN)
FLe(a, b) == FGe(b, a)

\* libm::floorf(a)
Floorf(a) == IF IsNum(a) THEN F(a.n \div a.d) ELSE a

\* f32::max(a, b): the other operand when one is NaN
FMax(a, b) ==
    IF IsNaN(a) THEN b
    ELSE IF IsNaN(b) THEN a
    ELSE IF FLt(a, b) THEN b ELSE a

\* `a as usize`: saturating, NaN to 0; a is integral or not finite
AsUsize(a) ==
    IF IsNaN(a) THEN 0
    ELSE IF ~IsNum(a) THEN (IF Sign(a) > 0 THEN UsizeMax ELSE 0)
    ELSE IF a.n < 0 THEN 0
    ELSE IF a.n \div a.d > UsizeMax THEN UsizeMax
    ELSE a.n \div a.d

Min(a, b) == IF a < b THEN a ELSE b

\* Option<T>: None is the empty sequence, Some(v) the one-element sequence
None == << >>
Some(v) == << v >>
IsSome(o) == o # None
Unwrap(o) == o[1]

\* ------------------------------------------------------------------ Grid
\* the values the pivot arguments of set_pivot are drawn from: 0 and 1/2
Pivots == {F(0), Frac(1, 2)}
Sizes == {0, MaxSize}

\* Grid::new's assertions with the sizes tested as strictly positive (as the
\* assertions' messages read)
NewOkStrict(width, height, columns, rows, layers) ==
    /\ FLt(F(0), width)
    /\ FLt(F(0), height)
    /\ columns > 0
    /\ rows > 0
    /\ layers > 0

\* Grid::new's assertions: the call panics unless they all hold
NewOk(width, height, columns, rows, layers) ==
    /\ FGe(width, F(0))
    /\ FGe(height, F(0))
    /\ columns > 0
    /\ rows > 0
    /\ layers > 0

\* The fields of the Grid that Grid::new returns (all but data)
GridNew(width, height, columns, rows, layers) ==
    [x |-> F(0),
     y |-> F(0),
     width |-> width,
     height |-> height,
     cell_width |-> FDiv(width, F(columns)),
     cell_height |-> FDiv(height, F(columns)),
     columns |-> columns,
     rows |-> rows,
     layers |-> layers,
     offset_x |-> FDiv(width, F(2)),
     offset_y |-> FDiv(width, F(2))]

\* data as Grid::new fills it: data[l][col][row], one call of func per cell in
\* the order layer, column, row; func is a closure that counts its calls
NewData(columns, rows, layers) ==
    [l \in 0..(layers - 1) |->
        [c \in 0..(columns - 1) |->
            [r \in 0..(rows - 1) |-> (l * columns + c) * rows + r]]]

\* Grid::resize's assertions
ResizeOk(width, height) == FGe(width, F(0)) /\ FGe(height, F(0))

\* Grid::resize
GridResize(g, width, height) ==
    LET current_offset_x == FDiv(g.offset_x, g.width)
        current_offset_y == FDiv(g.offset_y, g.height)
    IN [g EXCEPT !.width = width,
                 !.height = height,
                 !.cell_width = FDiv(width, F(g.columns)),
                 !.cell_height = FDiv(height, F(g.rows)),
                 !.offset_x = FMul(current_offset_x, width),
                 !.offset_y = FMul(current_offset_y, height)]

\* Grid::set_pivot
GridSetPivot(g, x, y) ==
    [g EXCEPT !.offset_x = FMul(g.width, x),
              !.offset_y = FMul(g.height, y)]

\* Grid::left, right, bottom, top
Left(g) == FSub(g.x, g.offset_x)
Right(g) == FSub(FAdd(g.x, g.width), g.offset_x)
Bottom(g) == FSub(g.y, g.offset_y)
Top(g) == FSub(FAdd(g.y, g.height), g.offset_y)

\* Grid::get_cell_coords: None, or Some(<<col, row>>)
GetCellCoords(g, x, y) ==
    LET x1 == FAdd(x, g.offset_x)
        y1 == FAdd(y, g.offset_y)
    IN IF FLt(x1, F(0)) THEN None
       ELSE IF FLt(y1, F(0)) THEN None
       ELSE Some(<<AsUsize(Floorf(FDiv(x1, g.cell_width))),
                   AsUsize(Floorf(FDiv(y1, g.cell_height)))>>)

\* Vec::get with the layer index wrapped around the number of layers
GetCellByIndicesWrapLayer(d, col, row, layer) ==
    LET l == layer % Cardinality(DOMAIN d)
    IN IF col \notin DOMAIN d[l] THEN None
       ELSE IF row \notin DOMAIN d[l][col] THEN None
       ELSE Some(<<l, col, row>>)

\* Vec::get on the three levels of data: None, or Some(the cell), a cell
\* (a reference &V) being its place <<layer, col, row>> in data
GetCellByIndices(d, col, row, layer) ==
    IF layer \notin DOMAIN d THEN None
    ELSE IF col \notin DOMAIN d[layer] THEN None
    ELSE IF row \notin DOMAIN d[layer][col] THEN None
    ELSE Some(<<layer, col, row>>)

\* Grid::get_cell and Grid::get_cell_mut (the reference they return)
GetCell(g, d, x, y, layer) ==
    LET coords == GetCellCoords(g, x, y)
    IN IF coords = None THEN None
       ELSE GetCellByIndices(d, Unwrap(coords)[1], Unwrap(coords)[2], layer)

\* the value a cell reference points to
Deref(d, cell) == d[cell[1]][cell[2]][cell[3]]

\* get_edges with the right column taken from the left edge
GetEdgesRightFromLeft(g, left, bottom, right, top) ==
    LET left1 == FAdd(left, g.offset_x)
        bottom1 == FAdd(bottom, g.offset_y)
        top1 == FAdd(top, g.offset_y)
        max_right == g.columns - 1
        col_left == Min(AsUsize(FMax(Floorf(FDiv(left1, g.cell_width)), F(0))), max_right)
        col_right == Min(AsUsize(Floorf(FDiv(left1, g.cell_width))), max_right)
        max_top == g.rows - 1
        row_bottom == Min(AsUsize(FMax(Floorf(FDiv(bottom1, g.cell_height)), F(0))), max_top)
        row_top == Min(AsUsize(Floorf(FDiv(top1, g.cell_height))), max_top)
    IN <<col_left, row_bottom, col_right, row_top>>

\* get_edges with the left column and the bottom row not clamped to the grid
GetEdgesUnclampedLow(g, left, bottom, right, top) ==
    LET left1 == FAdd(left, g.offset_x)
        bottom1 == FAdd(bottom, g.offset_y)
        right1 == FAdd(right, g.offset_x)
        top1 == FAdd(top, g.offset_y)
        max_right == g.columns - 1
        col_left == AsUsize(FMax(Floorf(FDiv(left1, g.cell_width)), F(0)))
        col_right == Min(AsUsize(Floorf(FDiv(right1, g.cell_width))), max_right)
        max_top == g.rows - 1
        row_bottom == AsUsize(FMax(Floorf(FDiv(bottom1, g.cell_height)), F(0)))
        row_top == Min(AsUsize(Floorf(FDiv(top1, g.cell_height))), max_top)
    IN <<col_left, row_bottom, col_right, row_top>>

\* Grid::get_edges: <<col_left, row_bottom, col_right, row_top>>
GetEdges(g, left, bottom, right, top) ==
    LET left1 == FAdd(left, g.offset_x)
        bottom1 == FAdd(bottom, g.offset_y)
        right1 == FAdd(right, g.offset_x)
        top1 == FAdd(top, g.offset_y)
        max_right == g.columns - 1
        col_left == Min(AsUsize(FMax(Floorf(FDiv(left1, g.cell_width)), F(0))), max_right)
        col_right == Min(AsUsize(Floorf(FDiv(right1, g.cell_width))), max_right)
        max_top == g.rows - 1
        row_bottom == Min(AsUsize(FMax(Floorf(FDiv(bottom1, g.cell_height)), F(0))), max_top)
        row_top == Min(AsUsize(Floorf(FDiv(top1, g.cell_height))), max_top)
    IN <<col_left, row_bottom, col_right, row_top>>

\* ------------------------------------------------------------------ state
VARIABLES
    grid,      \* the Grid's fields other than data
    data,      \* Grid::data
    query,     \* the arguments of the last rectangle or point query
    iter,      \* the live IterGridRect or IterCoords (kind "none": there is none)
    wrap,      \* the IterWithCoords around iter (on = FALSE: there is none)
    out,       \* the items the live iterator has yielded, in order
    ret,       \* the last call and what it returned
    late,      \* y_down() was called after an item had been yielded, and returned
    nones,     \* how many next() calls on iter have returned None (up to MaxNones)
    panicked   \* a panic has ended the program

vars == <<grid, data, query, iter, wrap, out, ret, late, nones, panicked>>

\* None returns of next() are counted up to this number
MaxNones == 2

\* no call yields more items than this in the model
MaxOut == MaxColumns * MaxRows + 1

NoIter ==
    [kind |-> "none", layer |-> 0, y_up |-> TRUE, top |-> 0, bottom |-> 0,
     left |-> 0, right |-> 0, current_row |-> 0, current_col |-> 0, done |-> FALSE]
NoWrap == [on |-> FALSE, current_col |-> 0, current_row |-> 0]
NoQuery == <<>>
NoRet == [op |-> "new", val |-> None]

\* an item an iterator yields: the cell (a reference), the coordinates, or both
CellItem(cell) == [cell |-> cell, coords |-> <<>>]
CoordsItem(col, row) == [cell |-> <<>>, coords |-> <<col, row>>]
BothItem(cell, col, row) == [cell |-> cell, coords |-> <<col, row>>]

\* ------------------------------------------------------------------ iterators
\* the fields Grid::iter_cells_in_rect gives the IterGridRect
NewIterGridRect(g, left, bottom, right, top, layer) ==
    LET e == GetEdges(g, left, bottom, right, top)
    IN [kind |-> "cells", layer |-> layer, y_up |-> TRUE,
        left |-> e[1], right |-> e[3], top |-> e[4], bottom |-> e[2],
        current_row |-> e[2], current_col |-> e[1], done |-> FALSE]

\* the fields Grid::iter_coords_in_rect gives the IterCoords
NewIterCoords(g, left, bottom, right, top) ==
    LET e == GetEdges(g, left, bottom, right, top)
    IN [kind |-> "coords", layer |-> 0, y_up |-> TRUE,
        top |-> e[4], bottom |-> e[2], left |-> e[1], right |-> e[3],
        current_row |-> e[2], current_col |-> e[1], done |-> FALSE]

\* y_down's assertion (IterGridRect and IterCoords alike)
YDownOk(it) == it.current_row = it.bottom

\* y_down() that turns the direction and leaves the cursor on the bottom row
YDownIterBottom(it) == [it EXCEPT !.y_up = FALSE]

\* y_down, past its assertion
YDownIter(it) == [it EXCEPT !.y_up = FALSE, !.current_row = it.top]

\* usize arithmetic: the sum or difference, whether it left 0..UsizeMax, and
\* the wrapped value a build without overflow checks goes on with
UAdd(a, b) == [v |-> (a + b) % (UsizeMax + 1), over |-> a + b > UsizeMax]
USub(a, b) == [v |-> (a - b + UsizeMax + 1) % (UsizeMax + 1), over |-> a < b]

\* advance() with the column wrap taken one column early (current_col >= right):
\* the last column of every row would be skipped
AdvanceEarlyWrap(it) ==
    LET col == UAdd(it.current_col, 1)
        up == UAdd(it.current_row, 1)
        down == USub(it.current_row, 1)
    IN IF ~(col.v >= it.right) THEN
           [it |-> [it EXCEPT !.current_col = col.v], over |-> col.over]
       ELSE IF it.y_up THEN
           [it |-> [it EXCEPT !.current_col = it.left,
                              !.current_row = up.v,
                              !.done = (up.v > it.top)],
            over |-> col.over \/ up.over]
       ELSE IF it.current_row = it.bottom THEN
           [it |-> [it EXCEPT !.current_col = it.left, !.done = TRUE],
            over |-> col.over]
       ELSE
           [it |-> [it EXCEPT !.current_col = it.left, !.current_row = down.v],
            over |-> col.over \/ down.over]

\* IterGridRect::advance and IterCoords::advance (the same code): the iterator
\* afterwards and whether an addition or subtraction overflowed on the way
Advance(it) ==
    LET col == UAdd(it.current_col, 1)
        up == UAdd(it.current_row, 1)
        down == USub(it.current_row, 1)
    IN IF ~(col.v > it.right) THEN
           [it |-> [it EXCEPT !.current_col = col.v], over |-> col.over]
       ELSE IF it.y_up THEN
           [it |-> [it EXCEPT !.current_col = it.left,
                              !.current_row = up.v,
                              !.done = (up.v > it.top)],
            over |-> col.over \/ up.over]
       ELSE IF it.current_row = it.bottom THEN
           [it |-> [it EXCEPT !.current_col = it.left, !.done = TRUE],
            over |-> col.over]
       ELSE
           [it |-> [it EXCEPT !.current_col = it.left, !.current_row = down.v],
            over |-> col.over \/ down.over]

\* IterGridRect::next: the iterator afterwards, the Option it returns and
\* whether it panicked: an overflow in advance() panics in a build with
\* overflow checks (checked) and wraps in a build without
RECURSIVE IterGridRectNext(_, _, _)
IterGridRectNext(it, d, checked) ==
    IF it.done THEN [it |-> it, val |-> None, panic |-> FALSE]
    ELSE IF it.layer \notin DOMAIN d THEN [it |-> it, val |-> None, panic |-> FALSE]
    ELSE IF it.current_col \in DOMAIN d[it.layer] THEN
        IF it.current_row \in DOMAIN d[it.layer][it.current_col] THEN
            LET a == Advance(it)
            IN IF a.over /\ checked
               THEN [it |-> it, val |-> None, panic |-> TRUE]
               ELSE [it |-> a.it,
                     val |-> Some(<<it.layer, it.current_col, it.current_row>>),
                     panic |-> FALSE]
        ELSE [it |-> it, val |-> None, panic |-> FALSE]
    ELSE
        LET a == Advance(it)
        IN IF a.over /\ checked THEN [it |-> it, val |-> None, panic |-> TRUE]
           ELSE IterGridRectNext(a.it, d, checked)

\* IterCoords::next as an iterator that starts over once it has reported None
IterCoordsNextRestart(it, checked) ==
    IF it.done
    THEN [it |-> [it EXCEPT !.done = FALSE, !.current_col = it.left,
                            !.current_row = IF it.y_up THEN it.bottom ELSE it.top],
          val |-> None, panic |-> FALSE]
    ELSE LET a == Advance(it)
         IN IF a.over /\ checked
            THEN [it |-> it, val |-> None, panic |-> TRUE]
            ELSE [it |-> a.it, val |-> Some(<<it.current_col, it.current_row>>),
                  panic |-> FALSE]

\* IterCoords::next
IterCoordsNext(it, checked) ==
    IF it.done THEN [it |-> it, val |-> None, panic |-> FALSE]
    ELSE LET a == Advance(it)
         IN IF a.over /\ checked
            THEN [it |-> it, val |-> None, panic |-> TRUE]
            ELSE [it |-> a.it, val |-> Some(<<it.current_col, it.current_row>>),
                  panic |-> FALSE]

\* a for loop over an IterGridRect: the cells its next() calls yield, in
\* order, and whether the loop ended on a None (not on a panic, nor on the
\* fuel, the number of items the model follows it for)
RECURSIVE DrainCells(_, _, _, _)
DrainCells(it, d, checked, fuel) ==
    IF fuel = 0 THEN [items |-> <<>>, ended |-> FALSE]
    ELSE LET r == IterGridRectNext(it, d, checked)
         IN IF r.panic THEN [items |-> <<>>, ended |-> FALSE]
            ELSE IF r.val = None THEN [items |-> <<>>, ended |-> TRUE]
            ELSE LET rest == DrainCells(r.it, d, checked, fuel - 1)
                 IN [items |-> <<Unwrap(r.val)>> \o rest.items, ended |-> rest.ended]

\* a for loop over an IterCoords, likewise
RECURSIVE DrainCoords(_, _, _)
DrainCoords(it, checked, fuel) ==
    IF fuel = 0 THEN [items |-> <<>>, ended |-> FALSE]
    ELSE LET r == IterCoordsNext(it, checked)
         IN IF r.panic THEN [items |-> <<>>, ended |-> FALSE]
            ELSE IF r.val = None THEN [items |-> <<>>, ended |-> TRUE]
            ELSE LET rest == DrainCoords(r.it, checked, fuel - 1)
                 IN [items |-> <<Unwrap(r.val)>> \o rest.items, ended |-> rest.ended]

\* the fields IterGridRect::enumerate_coords gives the IterWithCoords
NewIterWithCoords(it) ==
    [on |-> TRUE, current_col |-> it.current_col, current_row |-> it.current_row]

\* IterWithCoords::next, after self.iter.next() returned Some: the wrapper's
\* cursor afterwards (inner is the wrapped iterator after its next())
IterWithCoordsStep(w, inner) ==
    LET col == UAdd(w.current_col, 1)
        row == UAdd(w.current_row, 1)
    IN IF col.v > inner.right
       THEN [w |-> [w EXCEPT !.current_col = inner.left, !.current_row = row.v],
             over |-> col.over \/ row.over]
       ELSE [w |-> [w EXCEPT !.current_col = col.v], over |-> col.over]

\* ------------------------------------------------------------------ actions
\* the coordinates query rectangles and points are drawn from
Coords == -1..MaxSize
\* the layer arguments: the grid's layers and one beyond
LayerArgs(g) == 0..g.layers

\* let iter = grid.iter_cells_in_rect(left, bottom, right, top, layer)
IterCellsInRect ==
    /\ ~panicked
    /\ iter.kind = "none"
    /\ \E left \in Coords, bottom \in Coords, right \in Coords, top \in Coords,
          layer \in LayerArgs(grid) :
          /\ iter' = NewIterGridRect(grid, F(left), F(bottom), F(right), F(top), layer)
          /\ query' = <<left, bottom, right, top>>
    /\ ret' = [op |-> "iter_cells_in_rect", val |-> None]
    /\ UNCHANGED <<grid, data, wrap, out, late, nones, panicked>>

\* let iter = grid.iter_coords_in_rect(left, bottom, right, top)
IterCoordsInRect ==
    /\ ~panicked
    /\ iter.kind = "none"
    /\ \E left \in Coords, bottom \in Coords, right \in Coords, top \in Coords :
          /\ iter' = NewIterCoords(grid, F(left), F(bottom), F(right), F(top))
          /\ query' = <<left, bottom, right, top>>
    /\ ret' = [op |-> "iter_coords_in_rect", val |-> None]
    /\ UNCHANGED <<grid, data, wrap, out, late, nones, panicked>>

\* let iter = iter.y_down()
YDown ==
    /\ ~panicked
    /\ iter.kind # "none"
    /\ ~wrap.on
    /\ ret' = [op |-> "y_down", val |-> None]
    /\ IF YDownOk(iter)
       THEN /\ iter' = YDownIter(iter)
            /\ late' = (late \/ Len(out) > 0)
            /\ UNCHANGED panicked
       ELSE /\ panicked' = TRUE
            /\ UNCHANGED <<iter, late>>
    /\ UNCHANGED <<grid, data, query, wrap, out, nones>>

\* let iter = iter.enumerate_coords()
EnumerateCoords ==
    /\ ~panicked
    /\ iter.kind = "cells"
    /\ ~wrap.on
    /\ wrap' = NewIterWithCoords(iter)
    /\ ret' = [op |-> "enumerate_coords", val |-> None]
    /\ UNCHANGED <<grid, data, query, iter, out, late, nones, panicked>>

\* what a next() call leaves behind: r is the iterator's own result, item the
\* item yielded when r.val is Some
Returned(r, item) ==
    /\ panicked' = r.panic
    /\ iter' = r.it
    /\ ret' = [op |-> "next", val |-> IF r.val = None \/ r.panic THEN None ELSE Some(item)]
    /\ out' = IF r.val = None \/ r.panic THEN out ELSE Append(out, item)
    /\ nones' = IF r.val = None /\ ~r.panic THEN Min(nones + 1, MaxNones) ELSE nones

\* iter.next() on the IterGridRect
NextCells ==
    /\ ~panicked
    /\ iter.kind = "cells"
    /\ ~wrap.on
    /\ Len(out) < MaxOut
    /\ \E checked \in BOOLEAN :
          LET r == IterGridRectNext(iter, data, checked)
          IN Returned(r, IF r.val = None THEN <<>> ELSE CellItem(Unwrap(r.val)))
    /\ UNCHANGED <<grid, data, query, wrap, late>>

\* iter.next() on the IterCoords
NextCoords ==
    /\ ~panicked
    /\ iter.kind = "coords"
    /\ Len(out) < MaxOut
    /\ \E checked \in BOOLEAN :
          LET r == IterCoordsNext(iter, checked)
          IN Returned(r, IF r.val = None THEN <<>>
                         ELSE CoordsItem(Unwrap(r.val)[1], Unwrap(r.val)[2]))
    /\ UNCHANGED <<grid, data, query, wrap, late>>

\* iter.next() on the IterWithCoords
NextWithCoords ==
    /\ ~panicked
    /\ wrap.on
    /\ Len(out) < MaxOut
    /\ \E checked \in BOOLEAN :
          LET r == IterGridRectNext(iter, data, checked)
              w == IterWithCoordsStep(wrap, r.it)
              p == r.panic \/ (r.val # None /\ w.over /\ checked)
          IN /\ Returned([r EXCEPT !.panic = p],
                         IF r.val = None THEN <<>>
                         ELSE BothItem(Unwrap(r.val), wrap.current_col, wrap.current_row))
             /\ wrap' = IF r.val = None \/ p THEN wrap ELSE w.w
    /\ UNCHANGED <<grid, data, query, late>>

\* ------------------------------------------------------------------ Spec
\* the rows of layer 0 numbered row * columns + col, as the tests seed them
\* through get_cell_by_indices_mut
SeedRowMajor(g, d) ==
    [d EXCEPT ![0] = [c \in 0..(g.columns - 1) |->
                         [r \in 0..(g.rows - 1) |-> r * g.columns + c]]]

\* the grids the iterators run on: Grid::new, then set_pivot or not
IterGrids ==
    LET fresh == {GridNew(F(MaxSize), F(MaxSize), c, r, l) :
                     c \in 1..MaxColumns, r \in 1..MaxRows, l \in 1..MaxLayers}
    IN fresh \cup {GridSetPivot(g, F(0), F(0)) : g \in fresh}

Init ==
    /\ grid \in IterGrids
    /\ data = SeedRowMajor(grid, NewData(grid.columns, grid.rows, grid.layers))
    /\ query = NoQuery
    /\ iter = NoIter
    /\ wrap = NoWrap
    /\ out = <<>>
    /\ ret = NoRet
    /\ late = FALSE
    /\ nones = 0
    /\ panicked = FALSE

Next ==
    \/ IterCellsInRect
    \/ IterCoordsInRect
    \/ YDown
    \/ EnumerateCoords
    \/ NextCells
    \/ NextCoords
    \/ NextWithCoords

Spec == Init /\ [][Next]_vars

\* ------------------------------------------------------------------ SpecGrid
\* The grid on its own: resize, set_pivot and the point accessors.

\* grid.resize(width, height); a negative size fails resize's assertion
Resize ==
    /\ ~panicked
    /\ \E width \in Sizes \cup {-1}, height \in Sizes \cup {-1} :
          /\ query' = <<width, height>>
          /\ IF ResizeOk(F(width), F(height))
             THEN grid' = GridResize(grid, F(width), F(height)) /\ UNCHANGED panicked
             ELSE panicked' = TRUE /\ UNCHANGED grid
    /\ ret' = [op |-> "resize", val |-> None]
    /\ UNCHANGED <<data, iter, wrap, out, late, nones>>

\* grid.set_pivot(x, y)
SetPivot ==
    /\ ~panicked
    /\ \E x \in Pivots, y \in Pivots :
          /\ query' = <<x, y>>
          /\ grid' = GridSetPivot(grid, x, y)
    /\ ret' = [op |-> "set_pivot", val |-> None]
    /\ UNCHANGED <<data, iter, wrap, out, late, nones, panicked>>

\* grid.get_cell(x, y, layer)
GetCellAt ==
    /\ ~panicked
    /\ \E x \in Coords, y \in Coords, layer \in LayerArgs(grid) :
          /\ query' = <<x, y, layer>>
          /\ ret' = [op |-> "get_cell", val |-> GetCell(grid, data, F(x), F(y), layer)]
    /\ UNCHANGED <<grid, data, iter, wrap, out, late, nones, panicked>>

\* grid.get_cell_mut(x, y, layer)
GetCellMutAt ==
    /\ ~panicked
    /\ \E x \in Coords, y \in Coords, layer \in LayerArgs(grid) :
          /\ query' = <<x, y, layer>>
          /\ ret' = [op |-> "get_cell_mut", val |-> GetCell(grid, data, F(x), F(y), layer)]
    /\ UNCHANGED <<grid, data, iter, wrap, out, late, nones, panicked>>

InitGrid ==
    /\ \E w \in Sizes, h \in Sizes, c \in 1..MaxColumns, r \in 1..MaxRows,
          l \in 1..MaxLayers :
          /\ grid = GridNew(F(w), F(h), c, r, l)
          /\ data = NewData(c, r, l)
    /\ query = NoQuery
    /\ iter = NoIter
    /\ wrap = NoWrap
    /\ out = <<>>
    /\ ret = NoRet
    /\ late = FALSE
    /\ nones = 0
    /\ panicked = FALSE

NextGrid ==
    \/ Resize
    \/ SetPivot
    \/ GetCellAt
    \/ GetCellMutAt

SpecGrid == InitGrid /\ [][NextGrid]_vars

\* ------------------------------------------------------------------ SpecModify
\* modify_in_rect on a fresh grid, with a closure that adds 1 to the cell it
\* is given; out records the closure's calls in order.

\* physical width and height of the grids modify_in_rect runs on; its
\* rectangles range over -1 .. MaxExtent
MaxExtent == 6
ModifyCoords == -1..MaxExtent

\* the calls of func with only the four corner cells of the range kept
RECURSIVE ModifyCallsCorners(_, _, _, _)
ModifyCallsCorners(it, d, layer, fuel) ==
    IF fuel = 0 THEN <<>>
    ELSE LET r == IterCoordsNext(it, TRUE)
         IN IF r.val = None THEN <<>>
            ELSE LET coords == Unwrap(r.val)
                     cell == GetCellByIndices(d, coords[1], coords[2], layer)
                     corner == /\ coords[1] \in {it.left, it.right}
                               /\ coords[2] \in {it.bottom, it.top}
                 IN (IF cell = None \/ ~corner THEN <<>>
                     ELSE <<BothItem(Unwrap(cell), coords[1], coords[2])>>)
                    \o ModifyCallsCorners(r.it, d, layer, fuel - 1)

\* the body of modify_in_rect: the calls func(coords, cell) it makes, in order,
\* for the coordinates the IterCoords it yields (at most fuel of them)
RECURSIVE ModifyCalls(_, _, _, _)
ModifyCalls(it, d, layer, fuel) ==
    IF fuel = 0 THEN <<>>
    ELSE LET r == IterCoordsNext(it, TRUE)
         IN IF r.val = None THEN <<>>
            ELSE LET coords == Unwrap(r.val)
                     cell == GetCellByIndices(d, coords[1], coords[2], layer)
                 IN (IF cell = None THEN <<>>
                     ELSE <<BothItem(Unwrap(cell), coords[1], coords[2])>>)
                    \o ModifyCalls(r.it, d, layer, fuel - 1)

\* data after the closure has added 1 to the cell of each call
ApplyCalls(d, calls) ==
    [l \in DOMAIN d |->
        [c \in DOMAIN d[l] |->
            [r \in DOMAIN d[l][c] |->
                d[l][c][r] + Cardinality({i \in 1..Len(calls) : calls[i].cell = <<l, c, r>>})]]]

\* grid.modify_in_rect(left, bottom, right, top, layer, |_, cell| *cell += 1)
ModifyInRect ==
    /\ ~panicked
    /\ ret.op = "new"
    /\ \E left \in ModifyCoords, bottom \in ModifyCoords, right \in ModifyCoords,
          top \in ModifyCoords, layer \in LayerArgs(grid) :
          LET it == NewIterCoords(grid, F(left), F(bottom), F(right), F(top))
              calls == ModifyCalls(it, data, layer, MaxOut)
          IN /\ query' = <<left, bottom, right, top, layer>>
             /\ out' = calls
             /\ data' = ApplyCalls(data, calls)
    /\ ret' = [op |-> "modify_in_rect", val |-> None]
    /\ UNCHANGED <<grid, iter, wrap, late, nones, panicked>>

\* the grids modify_in_rect runs on: Grid::new, then set_pivot or not
ModifyGrids ==
    LET fresh == {GridNew(F(MaxExtent), F(MaxExtent), c, r, l) :
                     c \in 1..MaxColumns, r \in 1..MaxRows, l \in 1..MaxLayers}
    IN fresh \cup {GridSetPivot(g, F(0), F(0)) : g \in fresh}

InitModify ==
    /\ grid \in ModifyGrids
    /\ data = NewData(grid.columns, grid.rows, grid.layers)
    /\ query = NoQuery
    /\ iter = NoIter
    /\ wrap = NoWrap
    /\ out = <<>>
    /\ ret = NoRet
    /\ late = FALSE
    /\ nones = 0
    /\ panicked = FALSE

NextModify == ModifyInRect

SpecModify == InitModify /\ [][NextModify]_vars

\* ------------------------------------------------------------------ SpecNew
\* Grid::new on its own, with arguments its assertions reject among them.

\* the width and height arguments: negative, zero, positive, NaN and +inf
NewSizes == {F(-1), F(0), F(MaxSize), NaN, PInf}

\* the fields of grid while no Grid has been constructed
NoGrid ==
    [x |-> F(0), y |-> F(0), width |-> F(0), height |-> F(0),
     cell_width |-> F(0), cell_height |-> F(0),
     columns |-> 0, rows |-> 0, layers |-> 0,
     offset_x |-> F(0), offset_y |-> F(0)]

\* let grid = Grid::new(width, height, columns, rows, layers, func), the
\* arguments being those in query
New ==
    /\ ~panicked
    /\ ret.op = "start"
    /\ IF NewOk(query[1], query[2], query[3], query[4], query[5])
       THEN /\ grid' = GridNew(query[1], query[2], query[3], query[4], query[5])
            /\ data' = NewData(query[3], query[4], query[5])
            /\ UNCHANGED panicked
       ELSE /\ panicked' = TRUE
            /\ UNCHANGED <<grid, data>>
    /\ ret' = [op |-> "new", val |-> None]
    /\ UNCHANGED <<query, iter, wrap, out, late, nones>>

\* the cells of data row by row: all columns of row 0, then of row 1, ...
IterAllCellsByRow(d) ==
    LET layers == Cardinality(DOMAIN d)
        columns == IF layers = 0 THEN 0 ELSE Cardinality(DOMAIN d[0])
        rows == IF columns = 0 THEN 0 ELSE Cardinality(DOMAIN d[0][0])
    IN [i \in 1..(layers * columns * rows) |->
           <<(i - 1) \div (columns * rows),
             (i - 1) % columns,
             ((i - 1) % (columns * rows)) \div columns>>]

\* Grid::iter_all_cells: data.iter().flatten().flatten() walks the layers, in
\* each layer the columns, in each column the rows
IterAllCells(d) ==
    LET layers == Cardinality(DOMAIN d)
        columns == IF layers = 0 THEN 0 ELSE Cardinality(DOMAIN d[0])
        rows == IF columns = 0 THEN 0 ELSE Cardinality(DOMAIN d[0][0])
    IN [i \in 1..(layers * columns * rows) |->
           <<(i - 1) \div (columns * rows),
             ((i - 1) % (columns * rows)) \div rows,
             (i - 1) % rows>>]

\* for cell in grid.iter_all_cells() { .. }, on the grid Grid::new returned
CollectAllCells ==
    /\ ~panicked
    /\ ret.op = "new"
    /\ out' = [i \in 1..Len(IterAllCells(data)) |-> CellItem(IterAllCells(data)[i])]
    /\ ret' = [op |-> "iter_all_cells", val |-> None]
    /\ UNCHANGED <<grid, data, query, iter, wrap, late, nones, panicked>>

InitNew ==
    /\ \E width \in NewSizes, height \in NewSizes, columns \in 0..MaxColumns,
          rows \in 0..MaxRows, layers \in 0..MaxLayers :
          query = <<width, height, columns, rows, layers>>
    /\ grid = NoGrid
    /\ data = <<>>
    /\ iter = NoIter
    /\ wrap = NoWrap
    /\ out = <<>>
    /\ ret = [op |-> "start", val |-> None]
    /\ late = FALSE
    /\ nones = 0
    /\ panicked = FALSE

NextNew == New \/ CollectAllCells

SpecNew == InitNew /\ [][NextNew]_vars

\* ------------------------------------------------------------------ SpecEdges
\* iter_coords_in_rect in its ascending direction, on grids of any size and
\* pivot: fresh from Grid::new, resized or not, with set_pivot or not.

\* the grids: one layer (the coordinates do not depend on the layers)
EdgeGrids ==
    LET fresh == {GridNew(F(w), F(h), c, r, 1) :
                     w \in Sizes, h \in Sizes, c \in 1..MaxColumns, r \in 1..MaxRows}
        resized == fresh \cup {GridResize(g, F(w), F(h)) :
                                  g \in fresh, w \in Sizes, h \in Sizes}
    IN resized \cup {GridSetPivot(g, x, y) : g \in resized, x \in Pivots, y \in Pivots}

InitEdges ==
    /\ grid \in EdgeGrids
    /\ data = NewData(grid.columns, grid.rows, grid.layers)
    /\ query = NoQuery
    /\ iter = NoIter
    /\ wrap = NoWrap
    /\ out = <<>>
    /\ ret = NoRet
    /\ late = FALSE
    /\ nones = 0
    /\ panicked = FALSE

NextEdges == IterCoordsInRect \/ NextCoords

SpecEdges == InitEdges /\ [][NextEdges]_vars

\* ------------------------------------------------------------------ SpecLayer
\* A program whose first call on a fresh grid is either modify_in_rect or
\* iter_cells_in_rect, the iterator then being turned and consumed.

\* iter_cells_in_rect as the first call on the grid
IterCellsFirst == ret.op = "new" /\ IterCellsInRect

NextLayer == ModifyInRect \/ IterCellsFirst \/ YDown \/ NextCells

SpecLayer == InitModify /\ [][NextLayer]_vars

\* ------------------------------------------------------------------ claims
\* the last call was a next() that returned None
IsNextNone == ret.op = "next" /\ ret.val = None /\ ~panicked
\* the <<col, row>> of the cell an item stands for
ItemPos(item) == IF item.cell # <<>> THEN <<item.cell[2], item.cell[3]>> ELSE item.coords
\* there is a live iterator and, when it reads cells, its layer exists
LiveIter == iter.kind # "none" /\ (iter.kind = "cells" => iter.layer < grid.layers)
\* the query rectangle is the grid's own extent
FullGridQuery ==
    /\ F(query[1]) = Left(grid)
    /\ F(query[2]) = Bottom(grid)
    /\ F(query[3]) = Right(grid)
    /\ F(query[4]) = Top(grid)
\* the query rectangle has left <= right and bottom <= top
WellFormedQuery == query[1] <= query[3] /\ query[2] <= query[4]
\* cell (col, row) of layer 0 holds row * columns + col
RowMajorSeeded ==
    \A c \in 0..(grid.columns - 1), r \in 0..(grid.rows - 1) :
        data[0][c][r] = r * grid.columns + c
\* the number of cells of the iterator's clamped range
RangeCount == (iter.right - iter.left + 1) * (iter.top - iter.bottom + 1)

\* C1: on a single-layer grid with pivot (0,0) seeded row-major, the ascending
\* iteration of iter_cells_in_rect(0, 0, width, height, 0) yields the values
\* 0, 1, ..., columns*rows-1 in that order and then None.
C1FullAscending ==
    (/\ iter.kind = "cells"
     /\ grid.layers = 1
     /\ grid.offset_x = F(0) /\ grid.offset_y = F(0)
     /\ RowMajorSeeded
     /\ iter.layer = 0
     /\ iter.y_up
     /\ query = <<0, 0, grid.width.n, grid.height.n>>)
    => /\ \A i \in 1..Len(out) : Deref(data, out[i].cell) = i - 1
       /\ Len(out) <= grid.columns * grid.rows
       /\ (IsNextNone => Len(out) = grid.columns * grid.rows)

\* C2: after y_down() on a fresh full-grid iterator the rows are visited from
\* rows-1 down to 0, the columns of a row from left to right, every cell of
\* the grid once, and then next() returns None.
C2FullDescending ==
    (LiveIter /\ FullGridQuery /\ ~iter.y_up /\ ~late)
    => /\ \A i \in 1..Len(out) :
             ItemPos(out[i]) = <<(i - 1) % grid.columns,
                                 grid.rows - 1 - ((i - 1) \div grid.columns)>>
       /\ Len(out) <= grid.columns * grid.rows
       /\ (IsNextNone => Len(out) = grid.columns * grid.rows)

\* C3: for a query with left <= right and bottom <= top and a valid layer, in
\* both directions, the items yielded are cells of the clamped range, no cell
\* is yielded twice, and next() returns None exactly when all
\* (right-left+1)*(top-bottom+1) cells have been yielded.
C3ExactlyOnce ==
    (LiveIter /\ WellFormedQuery /\ ~late)
    => /\ \A i \in 1..Len(out) :
             /\ ItemPos(out[i])[1] \in iter.left..iter.right
             /\ ItemPos(out[i])[2] \in iter.bottom..iter.top
             /\ out[i].cell # <<>> => out[i].cell[1] = iter.layer
       /\ \A i \in 1..Len(out), j \in 1..Len(out) :
             i < j => ItemPos(out[i]) # ItemPos(out[j])
       /\ (IsNextNone => Len(out) = RangeCount)
       /\ (Len(out) = RangeCount => iter.done)

\* a state in which C3's case has happened: a descending walk over a range
\* of at least two rows and two columns has ended with None
C3Witness ==
    /\ LiveIter /\ WellFormedQuery /\ ~late
    /\ ~iter.y_up
    /\ iter.right > iter.left /\ iter.top > iter.bottom
    /\ IsNextNone
    /\ Len(out) = RangeCount

\* C4: whatever the query rectangle and the direction, no next() overflows
\* the cursor and at most columns*rows items are yielded.
C4Bounded ==
    (iter.kind # "none" /\ ~late)
    => /\ ~(panicked /\ ret.op = "next")
       /\ iter.current_row <= grid.rows
       /\ Len(out) <= grid.columns * grid.rows

\* C5: every triple the IterWithCoords yields names the cell it carries, and
\* the wrapper's cursor is the wrapped iterator's cursor (stated for the
\* queries with left <= right and bottom <= top, where no cursor overflows).
C5Synchronized ==
    (wrap.on /\ WellFormedQuery /\ ~late)
    => /\ \A i \in 1..Len(out) :
             out[i].coords # <<>> =>
                 out[i].cell = <<iter.layer, out[i].coords[1], out[i].coords[2]>>
       /\ (~iter.done =>
               /\ wrap.current_col = iter.current_col
               /\ wrap.current_row = iter.current_row)

\* C6: y_down() on an iterator that has yielded an item panics.
C6Rejects == (ret.op = "y_down" /\ Len(out) >= 1) => panicked

\* the documented cell size: width / columns by height / rows
TrueCellWidth == FDiv(grid.width, F(grid.columns))
TrueCellHeight == FDiv(grid.height, F(grid.rows))
\* the part of the interval lo..hi inside the extent from..to lies in the
\* first (Low) or the last (High) cell of size cell
LowPart(lo, hi, from, cell) ==
    lo <= hi /\ FGe(F(hi), from) /\ FLt(F(hi), FAdd(from, cell))
HighPart(lo, hi, to, cell) ==
    lo <= hi /\ FLt(F(lo), to) /\ FGe(F(lo), FSub(to, cell))
\* the corner cell the in-grid part of the query lies in, if it lies in one
CornerCol ==
    IF LowPart(query[1], query[3], Left(grid), TrueCellWidth) THEN Some(0)
    ELSE IF HighPart(query[1], query[3], Right(grid), TrueCellWidth)
         THEN Some(grid.columns - 1)
    ELSE None
CornerRow ==
    IF LowPart(query[2], query[4], Bottom(grid), TrueCellHeight) THEN Some(0)
    ELSE IF HighPart(query[2], query[4], Top(grid), TrueCellHeight)
         THEN Some(grid.rows - 1)
    ELSE None

\* C7: a query rectangle whose in-grid part lies inside one corner cell
\* yields that corner cell once and then None.
C7CornerCell ==
    (/\ iter.kind = "cells" /\ iter.layer < grid.layers /\ ~late
     /\ CornerCol # None /\ CornerRow # None)
    => /\ \A i \in 1..Len(out) :
             out[i].cell = <<iter.layer, Unwrap(CornerCol), Unwrap(CornerRow)>>
       /\ Len(out) <= 1
       /\ (IsNextNone => Len(out) = 1)

\* C8: every pair iter_coords_in_rect yields has col <= columns-1 and
\* row <= rows-1.
C8InBounds ==
    (iter.kind = "coords" /\ ~late)
    => \A i \in 1..Len(out) :
          /\ out[i].coords[1] <= grid.columns - 1
          /\ out[i].coords[2] <= grid.rows - 1

\* the edges get_edges returned lie in the grid
EdgesClamped ==
    iter.kind # "none"
    => /\ iter.left \in 0..(grid.columns - 1) /\ iter.right \in 0..(grid.columns - 1)
       /\ iter.bottom \in 0..(grid.rows - 1) /\ iter.top \in 0..(grid.rows - 1)

\* the point of the last point query lies outside the grid's physical extent
PointOutside ==
    \/ FLt(F(query[1]), Left(grid))
    \/ FGe(F(query[1]), Right(grid))
    \/ FLt(F(query[2]), Bottom(grid))
    \/ FGe(F(query[2]), Top(grid))
\* the point of the last point query lies inside it
PointInside ==
    /\ FGe(F(query[1]), Left(grid))
    /\ FLt(F(query[1]), Right(grid))
    /\ FGe(F(query[2]), Bottom(grid))
    /\ FLt(F(query[2]), Top(grid))

\* C9: get_cell and get_cell_mut return None for every point outside the
\* grid's physical extent and for every layer >= layers (stated for the grids
\* of positive width and height).
C9OutsideIsNone ==
    (/\ ret.op \in {"get_cell", "get_cell_mut"}
     /\ FLt(F(0), grid.width) /\ FLt(F(0), grid.height)
     /\ (PointOutside \/ query[3] >= grid.layers))
    => ret.val = None

\* C10: for a point inside the grid's physical extent and a layer of the
\* grid, get_cell_mut returns the cell at column floor((x+offset_x)/cell_width)
\* and row floor((y+offset_y)/cell_height).
C10ResolvesToFloor ==
    (ret.op = "get_cell_mut" /\ PointInside /\ query[3] < grid.layers)
    => ret.val =
          Some(<<query[3],
                 AsUsize(Floorf(FDiv(FAdd(F(query[1]), grid.offset_x), grid.cell_width))),
                 AsUsize(Floorf(FDiv(FAdd(F(query[2]), grid.offset_y), grid.cell_height)))>>)

\* C11: in every reachable grid state (after new(), resize() and set_pivot())
\* cell_width equals width / columns and cell_height equals height / rows.
C11CellSizes ==
    ~panicked => /\ grid.cell_width = FDiv(grid.width, F(grid.columns))
                 /\ grid.cell_height = FDiv(grid.height, F(grid.rows))

\* C12: resize keeps the pivot fractions offset_x / width and offset_y / height,
\* sets cell_width = width' / columns and cell_height = height' / rows, and
\* leaves columns, rows, layers and every cell's content as they were.
C12ResizeKeeps ==
    [][(ret'.op = "resize" /\ ~panicked')
       => /\ grid'.width = F(query'[1]) /\ grid'.height = F(query'[2])
          /\ FDiv(grid'.offset_x, grid'.width) = FDiv(grid.offset_x, grid.width)
          /\ FDiv(grid'.offset_y, grid'.height) = FDiv(grid.offset_y, grid.height)
          /\ grid'.cell_width = FDiv(grid'.width, F(grid.columns))
          /\ grid'.cell_height = FDiv(grid'.height, F(grid.rows))
          /\ grid'.columns = grid.columns /\ grid'.rows = grid.rows
          /\ grid'.layers = grid.layers
          /\ data' = data]_vars

\* the clamped range of the rectangle modify_in_rect was called with, as
\* get_edges computes it: <<col_left, row_bottom, col_right, row_top>>
ModifyEdges == GetEdges(grid, F(query[1]), F(query[2]), F(query[3]), F(query[4]))
\* modify_in_rect has run on a rectangle with left <= right and bottom <= top
\* and on a layer of the grid
ModifiedWellFormed ==
    /\ ret.op = "modify_in_rect"
    /\ query[1] <= query[3] /\ query[2] <= query[4]
    /\ query[5] < grid.layers
\* the rectangle lies inside the cell (c, r) of width / columns by height / rows
InsideCell(c, r) ==
    LET x0 == FAdd(Left(grid), FMul(F(c), TrueCellWidth))
        y0 == FAdd(Bottom(grid), FMul(F(r), TrueCellHeight))
    IN /\ FLe(x0, F(query[1])) /\ FLt(F(query[3]), FAdd(x0, TrueCellWidth))
       /\ FLe(y0, F(query[2])) /\ FLt(F(query[4]), FAdd(y0, TrueCellHeight))
\* how often func was called on the cell at (c, r)
CallsAt(c, r) == Cardinality({i \in 1..Len(out) : out[i].coords = <<c, r>>})

\* C13: for left <= right, bottom <= top and a valid layer, modify_in_rect
\* calls f exactly once on each cell of the clamped range of that layer, with
\* the cell's own (col, row), and on no other cell; a rectangle inside a single
\* cell gives exactly one call; all other cells stay as they were.
C13ModifyRange ==
    ModifiedWellFormed =>
        LET e == ModifyEdges
            before == NewData(grid.columns, grid.rows, grid.layers)
        IN /\ \A c \in e[1]..e[3], r \in e[2]..e[4] : CallsAt(c, r) = 1
           /\ \A i \in 1..Len(out) :
                 /\ out[i].coords[1] \in e[1]..e[3]
                 /\ out[i].coords[2] \in e[2]..e[4]
                 /\ out[i].cell = <<query[5], out[i].coords[1], out[i].coords[2]>>
           /\ \A l \in 0..(grid.layers - 1), c \in 0..(grid.columns - 1),
                 r \in 0..(grid.rows - 1) :
                 data[l][c][r] = before[l][c][r]
                     + (IF l = query[5] /\ c \in e[1]..e[3] /\ r \in e[2]..e[4]
                        THEN 1 ELSE 0)
           /\ (\E c \in 0..(grid.columns - 1), r \in 0..(grid.rows - 1) : InsideCell(c, r))
                 => Len(out) = 1

\* C14 as stated: modify_in_rect calls f only on the four clamped corner
\* cells, once each, so at most 4 times.
C14CornersOnly ==
    ret.op = "modify_in_rect" =>
        LET e == ModifyEdges
        IN /\ Len(out) <= 4
           /\ \A i \in 1..Len(out) :
                 /\ out[i].coords[1] \in {e[1], e[3]}
                 /\ out[i].coords[2] \in {e[2], e[4]}
           /\ \A i, j \in 1..Len(out) : i < j => out[i].coords # out[j].coords

\* C14, amended: for left <= right, bottom <= top and a valid layer,
\* modify_in_rect calls f on every cell of the clamped range, row by row from
\* the bottom and left to right inside a row, so
\* (col_right-col_left+1) * (row_top-row_bottom+1) times, at most columns * rows.
C14WholeRange ==
    ModifiedWellFormed =>
        LET e == ModifyEdges
            w == e[3] - e[1] + 1
        IN /\ Len(out) = w * (e[4] - e[2] + 1)
           /\ Len(out) <= grid.columns * grid.rows
           /\ \A i \in 1..Len(out) :
                 out[i].coords = <<e[1] + ((i - 1) % w), e[2] + ((i - 1) \div w)>>
\* modify_in_rect has called f more than 4 times, interior cells included
C14Witness ==
    /\ ModifiedWellFormed
    /\ Len(out) > 4
    /\ \E i \in 1..Len(out) : out[i].coords[2] \notin {ModifyEdges[2], ModifyEdges[4]}

\* Grid::new has been called with the arguments in query
NewCalled == ret.op = "new" /\ query # NoQuery
\* Grid::new has returned the grid its arguments describe
NewReturned ==
    /\ ~panicked
    /\ grid.width = query[1] /\ grid.height = query[2]
    /\ grid.columns = query[3] /\ grid.rows = query[4] /\ grid.layers = query[5]
    /\ DOMAIN data = 0..(query[5] - 1)
    /\ \A l \in DOMAIN data :
          /\ DOMAIN data[l] = 0..(query[3] - 1)
          /\ \A c \in DOMAIN data[l] : DOMAIN data[l][c] = 0..(query[4] - 1)

CoordsTwin ==
    LET it == NewIterCoords(grid, F(query[1]), F(query[2]), F(query[3]), F(query[4]))
    IN IF iter.y_up THEN it ELSE YDownIter(it)

\* C16: for the same rectangle (left > right and bottom > top included), the
\* same direction and a valid layer, the i-th value of iter_cells_in_rect is
\* the cell at the i-th (col, row) of iter_coords_in_rect, and both return
\* None after the same number of items.
C16Lockstep ==
    (iter.kind = "cells" /\ iter.layer < grid.layers /\ ~late /\ ~panicked)
    => LET twin == DrainCoords(CoordsTwin, FALSE, MaxOut)
       IN /\ Len(out) <= Len(twin.items)
          /\ \A i \in 1..Len(out) :
                i <= Len(twin.items) =>
                    out[i].cell = <<iter.layer, twin.items[i][1], twin.items[i][2]>>
          /\ IsNextNone => (twin.ended /\ Len(twin.items) = Len(out))

\* an ascending IterGridRect on layer 0 whose bounds are the entire grid
FullGridIter ==
    [kind |-> "cells", layer |-> 0, y_up |-> TRUE,
     top |-> grid.rows - 1, bottom |-> 0, left |-> 0, right |-> grid.columns - 1,
     current_row |-> 0, current_col |-> 0, done |-> FALSE]
\* the cells that iterator yields, in order
FullGridCells == DrainCells(FullGridIter, data, FALSE, grid.columns * grid.rows + 1).items

\* C17 as stated: on a single-layer grid iter_all_cells() yields the same cells
\* in the same order as the ascending rectangle iterator over the entire grid.
C17SameOrder ==
    (ret.op = "iter_all_cells" /\ grid.layers = 1)
    => /\ Len(out) = Len(FullGridCells)
       /\ \A i \in 1..Len(out) : out[i].cell = FullGridCells[i]

\* C17, amended: on a single-layer grid iter_all_cells() yields each cell
\* exactly once, the same cells as the ascending rectangle iterator over the
\* entire grid, but column by column (all rows of column 0 first), which is
\* the rectangle iterator's order only when columns = 1 or rows = 1.
C17ColumnMajor ==
    (ret.op = "iter_all_cells" /\ grid.layers = 1)
    => /\ Len(out) = grid.columns * grid.rows
       /\ Len(out) = Len(FullGridCells)
       /\ \A i \in 1..Len(out) :
             /\ out[i].cell = <<0, (i - 1) \div grid.rows, (i - 1) % grid.rows>>
             /\ \E j \in 1..Len(FullGridCells) : FullGridCells[j] = out[i].cell
       /\ \A i, j \in 1..Len(out) : i < j => out[i].cell # out[j].cell
       /\ (grid.columns = 1 \/ grid.rows = 1)
             <=> (\A i \in 1..Len(out) : out[i].cell = FullGridCells[i])
\* iter_all_cells() has run over a single-layer grid with several columns and rows
C17Witness ==
    /\ ret.op = "iter_all_cells" /\ grid.layers = 1
    /\ grid.columns > 1 /\ grid.rows > 1
    /\ Len(out) = grid.columns * grid.rows

\* C18: in every state of a rectangle iterator reached by a factory call, an
\* optional y_down() and next() calls, in which done is false,
\* left <= current_col <= right and bottom <= current_row <= top.
C18CursorInRange ==
    (iter.kind # "none" /\ ~iter.done /\ ~late /\ ~panicked)
    => /\ iter.left <= iter.current_col /\ iter.current_col <= iter.right
       /\ iter.bottom <= iter.current_row /\ iter.current_row <= iter.top

\* C19: once a next() on an IterGridRect or IterCoords has returned None,
\* every later next() on it returns None too and no further cell is yielded.
C19PermanentlyDone ==
    [][nones >= 1 => /\ out' = out
                     /\ ret'.op = "next" => (ret'.val = None /\ ~panicked')]_vars
\* next() has returned None a second time on an iterator that was done after
\* yielding the cells of its range
C19Witness ==
    /\ nones = MaxNones /\ ret.op = "next" /\ ret.val = None /\ ~panicked
    /\ iter.done /\ Len(out) > 1

\* the cells the ascending IterGridRect yields for the rectangle and layer of
\* the live iterator
AscendingCells ==
    DrainCells(NewIterGridRect(grid, F(query[1]), F(query[2]), F(query[3]), F(query[4]),
                               iter.layer),
               data, FALSE, MaxOut).items
\* the live iterator is a y_down() IterGridRect over the full grid that has
\* been consumed to its None
FullDescendingDone ==
    /\ iter.kind = "cells" /\ iter.layer < grid.layers
    /\ FullGridQuery /\ ~iter.y_up /\ ~late /\ IsNextNone

\* C20 as stated: the sequence the full-grid iteration produces after y_down()
\* is the ascending sequence reversed.
C20Reversed ==
    FullDescendingDone
    => /\ Len(out) = Len(AscendingCells)
       /\ \A i \in 1..Len(out) : out[i].cell = AscendingCells[Len(out) + 1 - i]

\* C20, amended: the sequence the full-grid iteration produces after y_down()
\* has the cells of the ascending sequence with the rows in reverse order
\* (top row first) and every row still from left to right.
C20RowsReversed ==
    FullDescendingDone
    => LET w == iter.right - iter.left + 1
           n == Len(AscendingCells)
       IN /\ Len(out) = n
          /\ \A i \in 1..Len(out) :
                out[i].cell = AscendingCells[n - w * ((i - 1) \div w + 1) + ((i - 1) % w) + 1]
\* a y_down() iteration over a full grid of several rows and columns has ended
C20Witness ==
    /\ FullDescendingDone
    /\ iter.right > iter.left /\ iter.top > iter.bottom
    /\ Len(out) = (iter.right - iter.left + 1) * (iter.top - iter.bottom + 1)

\* the points looked up: the halves from -1 to MaxSize
Points == {Frac(k, 2) : k \in -2..(2 * MaxSize)}
\* get_cell_coords(x, y) returns an in-bounds (col, row)
InBounds(x, y) ==
    LET c == GetCellCoords(grid, x, y)
    IN /\ c # None
       /\ Unwrap(c)[1] < grid.columns
       /\ Unwrap(c)[2] < grid.rows
\* the point lies in the query rectangle
InQuery(x, y) ==
    /\ FLe(F(query[1]), x) /\ FLe(x, F(query[3]))
    /\ FLe(F(query[2]), y) /\ FLe(y, F(query[4]))
\* the ascending IterCoords has been consumed to its None
CoordsDone == iter.kind = "coords" /\ iter.y_up /\ IsNextNone

\* C21: for every point whose get_cell_coords is an in-bounds (col, row) and
\* every rectangle containing the point, (col, row) is among the pairs
\* iter_coords_in_rect yields; for the rectangle (x, y, x, y) it is the only one.
C21Complete ==
    CoordsDone
    => \A x \in Points, y \in Points :
          (InBounds(x, y) /\ InQuery(x, y))
          => LET c == Unwrap(GetCellCoords(grid, x, y))
             IN /\ \E i \in 1..Len(out) : out[i].coords = c
                /\ (/\ F(query[1]) = x /\ F(query[3]) = x
                    /\ F(query[2]) = y /\ F(query[4]) = y)
                      => out = <<CoordsItem(c[1], c[2])>>
\* an iteration over several cells has ended, of a rectangle holding a point
\* of the grid's upper right cell
C21Witness ==
    /\ CoordsDone /\ Len(out) > 2
    /\ \E x \in Points, y \in Points :
          /\ InBounds(x, y) /\ InQuery(x, y)
          /\ GetCellCoords(grid, x, y) = Some(<<grid.columns - 1, grid.rows - 1>>)
          /\ grid.columns > 1 /\ grid.rows > 1

\* C22: for every rectangle with left <= right and bottom <= top, on any grid
\* and pivot, get_edges returns col_left <= col_right and row_bottom <= row_top.
C22OrderPreserving ==
    (iter.kind = "coords" /\ WellFormedQuery)
    => LET e == GetEdges(grid, F(query[1]), F(query[2]), F(query[3]), F(query[4]))
       IN /\ e[1] <= e[3] /\ e[2] <= e[4]
          /\ iter.left = e[1] /\ iter.bottom = e[2]
          /\ iter.right = e[3] /\ iter.top = e[4]
\* iter_coords_in_rect has been called with a well-formed rectangle entirely
\* to the right of and above a grid of several columns and rows
C22Witness ==
    /\ iter.kind = "coords" /\ WellFormedQuery
    /\ grid.columns > 1 /\ grid.rows > 1
    /\ FLt(F(0), grid.width) /\ FLt(F(0), grid.height)
    /\ FLe(Right(grid), F(query[1])) /\ FLe(Top(grid), F(query[2]))

\* C23: with a layer index >= layers, iter_cells_in_rect returns None on the
\* first and on every later next(), and modify_in_rect calls f zero times,
\* terminates and leaves every cell unchanged; no such call panics.
C23LayerAbsorbed ==
    /\ (iter.kind = "cells" /\ iter.layer >= grid.layers)
       => /\ out = <<>>
          /\ ret.op = "next" => (ret.val = None /\ ~panicked)
          /\ data = NewData(grid.columns, grid.rows, grid.layers)
    /\ (ret.op = "modify_in_rect" /\ query[5] >= grid.layers)
       => /\ out = <<>>
          /\ ~panicked
          /\ data = NewData(grid.columns, grid.rows, grid.layers)
          /\ DrainCoords(NewIterCoords(grid, F(query[1]), F(query[2]),
                                       F(query[3]), F(query[4])),
                         TRUE, MaxOut).ended
\* next() has returned None twice on an IterGridRect of a missing layer whose
\* range holds several cells
C23Witness ==
    /\ iter.kind = "cells" /\ iter.layer >= grid.layers
    /\ nones = MaxNones /\ ret.op = "next" /\ ret.val = None
    /\ iter.right > iter.left /\ iter.top > iter.bottom

============================================================================
